---- MODULE Spec2Model ----
(***************************************************************************)
(* speedrun: the measured streaming download engine                        *)
(* (src/src/downloader.rs, download_file and format_speed).                *)
(*                                                                         *)
(* One invocation of download_file is a process whose position is pc.      *)
(* Every await of the function (send, File::create, stream.next,           *)
(* write_all) ends an action; the clock may advance between actions, and   *)
(* the clock reads of one action see the same instant.                     *)
(* Durations are kept in milliseconds (as_secs_f64 is a change of unit).   *)
(* requests counts the calls of send(); redirects the HTTP client follows  *)
(* on its own are not counted.                                             *)
(*                                                                         *)
(* The save file is a tokio::fs::File: write_all hands the bytes to a      *)
(* blocking task and returns; the bytes reach the file when that task      *)
(* runs (BlockingWrite), and a failed task is reported by the next write   *)
(* or by flush.  download_file never calls flush.                          *)
(***************************************************************************)
EXTENDS Integers, Sequences, FiniteSets, TLC

\* ---------------------------------------------------------------- bounds
\* chunks the body stream may deliver in one transfer
MaxChunks == 2
\* clock ticks that may pass during one transfer
MaxTicks == 4

\* ------------------------------------------------------------- constants
\* "Update speed message every 100ms"
REFRESH_MS == 100
\* one tick is half the refresh interval, so a refresh needs two ticks
TickMs == REFRESH_MS \div 2
\* Option::None of ttfb: Option<f64> (durations are never negative)
NoneF == -1
\* Option::None of save_path: Option<&str>
NoPath == "None"
Paths == {"out.dat", "other.dat"}
\* what a file holds before the call, when it exists
OldContents == {<<9, 9, 9>>}
\* chunks the transport may deliver (the empty chunk included)
Chunks == {<<>>, <<1>>, <<2, 3>>}
\* responses: status code and Content-Length (0 when absent)
Responses == {[status |-> 200, len |-> 3], [status |-> 200, len |-> 0],
              [status |-> 404, len |-> 3]}
SpeedUnit == {"BitsMetric", "BitsBinary", "BytesMetric", "BytesBinary"}

VARIABLES
    pc,               \* position of download_file
    clock,            \* the monotonic clock (Instant), in ms
    ticks,            \* ticks passed so far
    clock_reads,      \* Instant::now() / elapsed() calls made
    requests,         \* GET requests issued
    ua_ok,            \* the user_agent argument is a valid header value
    save_path,        \* the save_path argument
    speed_unit,       \* the speed_unit argument
    show_progress,    \* the show_progress argument of download_file_with_progress
    fs,               \* the filesystem: path -> [exists, data]
    fs0,              \* the filesystem when the call started
    start, connect_time, status_code, total_size, ttfb_start,
    pb,               \* the ProgressBar
    downloaded, ttfb, file, last_update, last_downloaded,
    seen,             \* the chunks stream.next() has yielded, in order
    chunk,            \* the chunk of the current iteration
    f_state, f_buf, f_err,   \* the tokio File: Idle/Busy, bytes in flight, failed op
    loop_start,       \* (history) the instant the chunk loop was entered
    result,           \* the DownloadResult returned (Ok)
    err,              \* the `?` that returned Err
    fmt_rate, fmt_unit,   \* the arguments of a call of format_speed on its own
    fmt_out,          \* what that call returned: <<>> before, <<text>> after
    self,             \* the invocation whose locals the variables above hold
    other,            \* the locals of a second, concurrent invocation, if any
    ev, prev, turn,   \* two runs in lockstep: the event of the round, the locals
                      \* before the step, and whose step it is (0: nobody's)
    \* main (src/src/main.rs)
    main_pc,          \* position of main
    argv,             \* Args::parse()
    config_interactive,   \* load_config().interactive
    now,              \* Utc::now(), in half days
    waited,           \* half days spent waiting for the server list
    cache_file,       \* the servers.json of the data directory
    server_data,      \* main's LocalServerData
    fetches,          \* calls of fetch_remote_server_list
    output_format,    \* the OutputFormat main resolved
    interactive_mode, \* the mode main resolved
    calls,            \* the calls of download_file main made: [url, save_path]
    printed,          \* what main printed of the last result
    exit,             \* what main returned
    \* servers (src/src/servers.rs)
    merged,           \* what get_merged_server_list returned: <<>> before, <<list>> after
    \* the signals of the GUI's app component (src/src/gui.rs)
    servers, selected_server, test_running, last_result, status_message,
    tasks,            \* the spawned download tasks that have not finished
    presses           \* (history) presses of the Run button so far

vars == <<pc, clock, ticks, clock_reads, requests, ua_ok, save_path, speed_unit,
          show_progress,
          fs, fs0, start, connect_time, status_code, total_size, ttfb_start, pb,
          downloaded, ttfb, file, last_update, last_downloaded, seen, chunk,
          f_state, f_buf, f_err, loop_start, result, err,
          fmt_rate, fmt_unit, fmt_out, self, other, ev, prev, turn,
          main_pc, argv, config_interactive, now, waited, cache_file, server_data,
          fetches, output_format, interactive_mode, calls, printed, exit, merged,
          servers, selected_server, test_running, last_result, status_message, tasks,
          presses>>

\* --------------------------------------------------------------- helpers
RECURSIVE Concat(_)
Concat(cs) == IF cs = <<>> THEN <<>> ELSE Head(cs) \o Concat(Tail(cs))

RECURSIVE SumLen(_)
SumLen(cs) == IF cs = <<>> THEN 0 ELSE Len(Head(cs)) + SumLen(Tail(cs))

RECURSIVE Pow(_, _)
Pow(b, e) == IF e = 0 THEN 1 ELSE b * Pow(b, e - 1)

\* <<quotient, remainder>> of m * r by d, for 0 <= r < d, by doubling: no
\* intermediate value exceeds 2 * d (the rates of format_speed reach 2^30)
RECURSIVE MulDivMod(_, _, _)
MulDivMod(m, r, d) ==
    IF m = 0 THEN <<0, 0>>
    ELSE LET h == MulDivMod(m \div 2, r, d)
             c1 == IF 2 * h[2] >= d THEN 1 ELSE 0
             r1 == 2 * h[2] - c1 * d
             r2 == IF m % 2 = 1 THEN r1 + r ELSE r1
             c2 == IF r2 >= d THEN 1 ELSE 0
         IN  <<2 * h[1] + c1 + c2, r2 - c2 * d>>

\* m * n / d rounded to the nearest integer, ties to even: "{:.2}" of n / d
\* is RoundMulDiv(100, n, d) hundredths
RoundMulDiv(m, n, d) ==
    LET f == MulDivMod(m, n % d, d)
        q == m * (n \div d) + f[1]
    IN  IF 2 * f[2] > d \/ (2 * f[2] = d /\ q % 2 = 1) THEN q + 1 ELSE q

NoResult == [status_code |-> 0, connect_time |-> 0, ttfb |-> 0, total_time |-> 0,
             bytes_downloaded |-> 0, returned |-> FALSE]
NoPb == [style |-> "none", length |-> 0, position |-> 0, message |-> <<>>,
         finished |-> FALSE]
\* ---------------------------------------------------------- format_speed
\* A formatted number: val / 10^dec printed with dec decimals, then the unit.
Text(val, dec, unit) == [val |-> val, dec |-> dec, unit |-> unit]

\* (mutant) the thresholds are exclusive
BitsTextExclusive(bn, den, base, G, M, K) ==
    LET whole == bn \div den
        over(t) == whole > t \/ (whole = t /\ bn % den > 0)
    IN  IF over(Pow(base, 3)) THEN Text(RoundMulDiv(100, bn, Pow(base, 3) * den), 2, G)
        ELSE IF over(Pow(base, 2)) THEN Text(RoundMulDiv(100, bn, Pow(base, 2) * den), 2, M)
        ELSE IF over(base) THEN Text(RoundMulDiv(100, bn, base * den), 2, K)
        ELSE Text(RoundMulDiv(100, bn, den), 2, "bps")

\* the bits branches: bits_per_sec = bn / den, compared with >= to base^3,
\* base^2, base; "{:.2} <unit>".  A rate reaches an integer threshold exactly
\* when its integer part does.
BitsText(bn, den, base, G, M, K) ==
    LET whole == bn \div den
    IN  IF whole >= Pow(base, 3) THEN Text(RoundMulDiv(100, bn, Pow(base, 3) * den), 2, G)
        ELSE IF whole >= Pow(base, 2) THEN Text(RoundMulDiv(100, bn, Pow(base, 2) * den), 2, M)
        ELSE IF whole >= base THEN Text(RoundMulDiv(100, bn, base * den), 2, K)
        ELSE Text(RoundMulDiv(100, bn, den), 2, "bps")

\* the largest exponent e in 1..6 with unit^e <= bytes (bytesize's ideal unit)
RECURSIVE IdealExp(_, _, _)
IdealExp(bytes, unit, e) ==
    IF e < 6 /\ bytes \div Pow(unit, e) >= unit THEN IdealExp(bytes, unit, e + 1) ELSE e

\* ByteSize::b(bytes) displayed: "<bytes> B" below one unit, else "{:.1} <prefix>B"
ByteSizeText(bytes, unit, prefixes, suffix) ==
    IF bytes < unit THEN Text(bytes, 0, "B/s")
    ELSE LET e == IdealExp(bytes, unit, 1)
         IN  Text(RoundMulDiv(10, bytes, Pow(unit, e)), 1, prefixes[e] \o suffix \o "/s")

\* format_speed(bytes_per_sec, unit) with bytes_per_sec = num / den
format_speed(num, den, unit) ==
    CASE unit = "BitsMetric" -> BitsText(8 * num, den, 1000, "Gbps", "Mbps", "Kbps")
      [] unit = "BitsBinary" -> BitsText(8 * num, den, 1024, "Gibps", "Mibps", "Kibps")
      [] unit = "BytesMetric" ->
            ByteSizeText(num \div den, 1000, <<"k", "M", "G", "T", "P", "E">>, "B")
      [] unit = "BytesBinary" ->
            ByteSizeText(num \div den, 1024, <<"K", "M", "G", "T", "P", "E">>, "iB")

\* --------------------------------------------------------- download_file
\* Instant::elapsed / duration_since, in ms
Elapsed(since) == clock - since

\* Option::None of argv.format; any other Option is <<>> or <<the value>>
None == "None"
NoArgs == [url |-> <<>>, interactive |-> FALSE, non_interactive |-> FALSE,
           format |-> None, compact |-> FALSE, json |-> FALSE, update_servers |-> FALSE]
\* the servers.json file: absent, unreadable, or holding a LocalServerData
NoFile == [state |-> "absent", data |-> <<>>]
Corrupt == [state |-> "corrupt", data |-> <<>>]
FileOf(d) == [state |-> "ok", data |-> <<d>>]
\* LocalServerData::default() at time t (servers.rs 63-71)
DefaultData(t) == [health |-> {}, cache_timestamp |-> t, remote_list |-> <<>>]

\* main has not been entered
MainNotStarted ==
    /\ main_pc = "start"
    /\ now = 0 /\ waited = 0
    /\ fetches = 0
    /\ output_format = "Human"
    /\ interactive_mode = FALSE
    /\ calls = <<>>
    /\ printed = "nothing"
    /\ exit = "running"

\* gui.rs 59-62: the initial values of the signals
SignalsInit ==
    /\ selected_server = 0
    /\ test_running = FALSE
    /\ last_result = <<>>
    /\ status_message = <<"Ready to test">>
    /\ tasks = <<>>
    /\ presses = 0

\* the GUI is not launched: there are no servers to show
NoGui ==
    /\ servers = <<>>
    /\ SignalsInit

\* download_file is called on its own: there is no main and no server list
EngineOnly ==
    /\ MainNotStarted
    /\ NoGui
    /\ argv = NoArgs
    /\ config_interactive = FALSE
    /\ cache_file = NoFile
    /\ server_data = DefaultData(0)
    /\ merged = <<>>

\* download_file has not been called: its locals hold nothing yet
NotStarted ==
    /\ pc = "init"
    /\ clock = TickMs      \* an Instant has no origin: any value will do
    /\ ticks = 0
    /\ clock_reads = 0
    /\ requests = 0
    /\ start = 0 /\ connect_time = 0 /\ status_code = 0 /\ total_size = 0
    /\ ttfb_start = 0 /\ pb = NoPb
    /\ downloaded = 0 /\ ttfb = NoneF /\ file = "None"
    /\ last_update = 0 /\ last_downloaded = 0
    /\ seen = <<>> /\ chunk = <<>>
    /\ f_state = "Idle" /\ f_buf = <<>> /\ f_err = FALSE
    /\ loop_start = NoneF
    /\ result = NoResult
    /\ err = "none"
    \* download_file takes no show_progress: it always reports progress
    /\ show_progress = TRUE

Absent == [exists |-> FALSE, data |-> <<>>]
\* a filesystem in which out.dat is o and other.dat holds old contents
FsWith(o) ==
    [p \in Paths |-> IF p = "out.dat" THEN o ELSE [exists |-> TRUE, data |-> <<9, 9, 9>>]]

\* format_speed is not called on its own
NoFormat ==
    /\ fmt_rate = [num |-> 0, den |-> 1]
    /\ fmt_unit = "BitsMetric"
    /\ fmt_out = <<>>

\* there is one invocation only
NoEvent == [act |-> "none", arg |-> 0]
\* the steps are not scheduled in rounds
Unscheduled ==
    /\ ev = NoEvent
    /\ prev = <<>>
    /\ turn = 0

Alone ==
    /\ self = 1
    /\ other = <<>>
    /\ Unscheduled

Init ==
    /\ NotStarted
    /\ EngineOnly
    /\ ua_ok \in BOOLEAN
    /\ save_path \in {NoPath, "out.dat"}
    /\ speed_unit \in SpeedUnit
    /\ fs \in {FsWith(o) : o \in {Absent} \cup {[exists |-> TRUE, data |-> d] : d \in OldContents}}
    /\ fs0 = fs
    /\ NoFormat
    /\ Alone

\* the locals of download_file that an action leaves alone
timing == <<start, connect_time, status_code, total_size, ttfb_start>>
loopvars == <<downloaded, ttfb, last_update, last_downloaded, seen, chunk>>
body == <<loopvars, loop_start>>
handle == <<f_state, f_buf, f_err>>
args == <<ua_ok, save_path, speed_unit, show_progress, fs0>>
\* what no step of download_file touches
\* the state of main
startup == <<main_pc, argv, config_interactive, now, waited, cache_file, server_data,
             fetches, output_format, interactive_mode, calls, printed, exit>>
\* the state of the callers of download_file
\* the state of the GUI
gui == <<servers, selected_server, test_running, last_result, status_message, tasks,
         presses>>
outer == <<startup, merged, gui>>
harness == <<fmt_rate, fmt_unit, fmt_out, self, other, ev, prev, turn, outer>>

\* returning drops the locals: the File handle goes out of scope (no flush)
Dropped == IF file = "Some" THEN "Dropped" ELSE file

\* (mutant) a failed send is tried again
FailRetry(site) ==
    /\ pc' = IF site = "send" THEN "init" ELSE "error"
    /\ err' = site
    /\ file' = Dropped

\* `?` at the given site: download_file returns Err
Fail(site) ==
    /\ pc' = "error"
    /\ err' = site
    /\ file' = Dropped

\* lines 64-66: Client::builder().user_agent(user_agent).build()? fails on a
\* user agent that is no valid header value; nothing has been sent
BuildFail ==
    /\ pc = "init"
    /\ ~ua_ok
    /\ Fail("build")
    /\ UNCHANGED <<clock, ticks, clock_reads, requests, args, harness, fs, timing, pb,
                   body, handle, result>>

\* (mutant) the save file is created when the request is sent
FsCreatedAtSend ==
    IF save_path = NoPath THEN fs
    ELSE [fs EXCEPT ![save_path] = [exists |-> TRUE, data |-> <<>>]]

\* lines 64-70: nothing touches the filesystem before the response arrives
FsAtSend == fs

\* lines 68-70: start = Instant::now(); client.get(url).send()
SendRequest ==
    /\ pc = "init"
    /\ ua_ok
    /\ fs' = FsAtSend
    /\ start' = clock
    /\ clock_reads' = clock_reads + 1
    /\ requests' = requests + 1
    /\ pc' = "send"
    /\ UNCHANGED <<clock, ticks, args, harness, connect_time, status_code, total_size,
                   ttfb_start, pb, body, file, handle, result, err>>
\* line 70: send().await? fails (DNS, connect refused, TLS): no response
ConnectFail ==
    /\ pc = "send"
    /\ Fail("send")
    /\ UNCHANGED <<clock, ticks, clock_reads, requests, args, harness, fs, timing, pb,
                   body, handle, result>>

\* (mutant) the instant itself instead of the time elapsed
ConnectTimeAbs == clock

\* line 71: connect_time = start.elapsed()
ConnectTime == Elapsed(start)

\* lines 79-93: ProgressBar::new(total_size); a bar when the size is known,
\* a spinner otherwise
NewPb(size) ==
    [style |-> IF size > 0 THEN "bar" ELSE "spinner", length |-> size,
     position |-> 0, message |-> <<>>, finished |-> FALSE]

\* download_file_with_progress(url, save_path, user_agent, speed_unit,
\* show_progress): download_file, except that the Progress Reporter is
\* driven only if show_progress; p is the bar after the reporter's action
Progress(p) == IF show_progress THEN p ELSE pb

\* (mutant) a default file name when no path is given
FileOrDefault == IF save_path = NoPath THEN "out.dat" ELSE save_path

\* lines 101-102: `if let Some(path) = save_path`: the file to create, if any
FileToCreate == save_path

\* (mutant) the loop is entered without creating the file
PcLoopAtOnce == "loop"

\* (mutant) a status of 400 or more is turned into an error
PcErrorForStatus ==
    IF status_code' >= 400 THEN "error"
    ELSE IF FileToCreate = NoPath THEN "loop" ELSE "create"

\* lines 101-107: the file is created before the loop is entered
PcAfterHeaders == IF FileToCreate = NoPath THEN "loop" ELSE "create"

\* lines 70-99: the response headers arrive; every status code is accepted
\* (no error_for_status); the locals of the loop are initialised
RecvResponse(resp) ==
    /\ pc = "send"
    /\ connect_time' = ConnectTime
    /\ status_code' = resp.status
    /\ total_size' = resp.len
    /\ ttfb_start' = clock
    /\ pb' = Progress(NewPb(resp.len))
    /\ downloaded' = 0
    /\ ttfb' = NoneF
    /\ file' = "None"
    /\ last_update' = clock
    /\ last_downloaded' = 0
    /\ clock_reads' = clock_reads + 3
    /\ pc' = PcAfterHeaders
    /\ loop_start' = IF pc' = "loop" THEN clock ELSE loop_start
    /\ UNCHANGED <<clock, ticks, requests, args, harness, fs, start, seen, chunk, handle,
                   result, err>>

\* line 102: File::create(path).await? creates or truncates the file, or fails
CreateFile(ok) ==
    /\ pc = "create"
    /\ IF ok
       THEN /\ fs' = [fs EXCEPT ![FileToCreate] = [exists |-> TRUE, data |-> <<>>]]
            /\ file' = "Some"
            /\ pc' = "loop"
            /\ loop_start' = clock
            /\ UNCHANGED err
       ELSE /\ Fail("create")
            /\ UNCHANGED <<fs, loop_start>>
    /\ UNCHANGED <<clock, ticks, clock_reads, requests, args, harness, timing, pb, loopvars,
                   handle, result>>

\* (mutant) ttfb is measured from the start of the request
TtfbSinceStart == IF ttfb = NoneF THEN Elapsed(start) ELSE ttfb

\* (mutant) every chunk sets ttfb
EveryChunkTtfb == Elapsed(ttfb_start)

\* lines 110-112: ttfb is set by the first chunk only
FirstChunkTtfb == IF ttfb = NoneF THEN Elapsed(ttfb_start) ELSE ttfb

\* (mutant) the bits conventions count bits
AccumulateByUnit(c) ==
    downloaded + (IF speed_unit \in {"BitsMetric", "BitsBinary"} THEN 8 ELSE 1) * Len(c)

\* (mutant) chunks are counted instead of bytes
AccumulateCount(c) == downloaded + 1

\* line 114: downloaded += chunk.len()
Accumulate(c) == downloaded + Len(c)

\* (mutant) the message is refreshed after half the interval
RefreshTooSoon == Elapsed(last_update) >= REFRESH_MS \div 2

\* line 119: now.duration_since(last_update).as_millis() >= 100
RefreshDue == Elapsed(last_update) >= REFRESH_MS

\* (mutant) the average speed since the headers arrived
SpeedCumulative(bytes_diff, elapsed) ==
    format_speed(downloaded' * 1000, clock - ttfb_start, speed_unit)

\* lines 120-123: the speed since the last refresh, formatted
SpeedMessage(bytes_diff, elapsed) == format_speed(bytes_diff * 1000, elapsed, speed_unit)

\* (mutant) the clock is read for the first chunk only
ChunkReadsFirstOnly == IF ttfb = NoneF THEN 1 ELSE 0

\* lines 111, 118: the clock reads of one iteration: ttfb_start.elapsed() on
\* the first chunk, Instant::now() on every chunk
ChunkReads == IF ttfb = NoneF THEN 2 ELSE 1

\* lines 107-126: stream.next() yields a chunk; counters and progress
NextChunk(c) ==
    /\ pc = "loop"
    /\ Len(seen) < MaxChunks
    /\ seen' = Append(seen, c)
    /\ chunk' = c
    /\ ttfb' = FirstChunkTtfb
    /\ downloaded' = Accumulate(c)
    /\ IF RefreshDue
       THEN /\ pb' = Progress([pb EXCEPT !.position = downloaded',
                                         !.message = SpeedMessage(downloaded' - last_downloaded,
                                                                  Elapsed(last_update))])
            /\ last_update' = clock
            /\ last_downloaded' = downloaded'
       ELSE /\ pb' = Progress([pb EXCEPT !.position = downloaded'])
            /\ UNCHANGED <<last_update, last_downloaded>>
    /\ clock_reads' = clock_reads + ChunkReads
    /\ pc' = IF file = "Some" THEN "write" ELSE "loop"
    /\ UNCHANGED <<clock, ticks, requests, args, harness, fs, timing, file, handle,
                   loop_start, result, err>>

\* lines 128-130: f.write_all(&chunk).await?  An empty chunk makes no write.
\* The write waits for the operation in flight; if that one failed, its error
\* is returned; otherwise the chunk is handed to a blocking task.
WriteAll ==
    /\ pc = "write"
    /\ IF chunk = <<>>
       THEN /\ pc' = "loop"
            /\ UNCHANGED <<file, handle, err>>
       ELSE /\ f_state = "Idle"
            /\ IF f_err
               THEN /\ Fail("write")
                    /\ f_err' = FALSE
                    /\ UNCHANGED <<f_state, f_buf>>
               ELSE /\ f_state' = "Busy"
                    /\ f_buf' = chunk
                    /\ pc' = "loop"
                    /\ UNCHANGED <<file, f_err, err>>
    /\ UNCHANGED <<clock, ticks, clock_reads, requests, args, harness, fs, timing, pb,
                   body, result>>

\* the blocking task of the File writes the bytes in flight: all of them, or
\* (disk full, I/O error) only the first n of them
BlockingWrite(n) ==
    /\ f_state = "Busy"
    /\ n \in 0..Len(f_buf)
    /\ fs' = [fs EXCEPT ![FileToCreate].data = @ \o SubSeq(f_buf, 1, n)]
    /\ f_state' = "Idle"
    /\ f_buf' = <<>>
    /\ f_err' = (n < Len(f_buf))
    /\ UNCHANGED <<pc, clock, ticks, clock_reads, requests, args, harness, timing, pb,
                   body, file, result, err>>

\* line 108: `chunk?`: the stream reports an error
StreamError ==
    /\ pc = "loop"
    /\ Fail("stream")
    /\ UNCHANGED <<clock, ticks, clock_reads, requests, args, harness, fs, timing, pb,
                   body, handle, result>>

\* lines 107, 133: the stream is exhausted; pb.finish_and_clear()
StreamEnd ==
    /\ pc = "loop"
    /\ pb' = Progress([pb EXCEPT !.finished = TRUE])
    /\ pc' = "finish"
    /\ UNCHANGED <<clock, ticks, clock_reads, requests, args, harness, fs, timing, body,
                   file, handle, result, err>>

\* (mutant) a missing ttfb is reported as zero
TtfbOrZero == IF ttfb = NoneF THEN 0 ELSE ttfb

\* line 140: ttfb.unwrap_or(connect_time)
TtfbOrConnect == IF ttfb = NoneF THEN connect_time ELSE ttfb

\* (mutant) the byte count is read back from the progress bar
MakeResultFromBar(total_time) ==
    [status_code |-> status_code, connect_time |-> connect_time,
     ttfb |-> TtfbOrConnect, total_time |-> total_time,
     bytes_downloaded |-> pb.position, returned |-> TRUE]

\* lines 137-143: the DownloadResult
MakeResult(total_time) ==
    [status_code |-> status_code, connect_time |-> connect_time,
     ttfb |-> TtfbOrConnect, total_time |-> total_time,
     bytes_downloaded |-> downloaded, returned |-> TRUE]

\* lines 135-143: total_time = start.elapsed(); Ok(DownloadResult)
Return ==
    /\ pc = "finish"
    /\ result' = MakeResult(Elapsed(start))
    /\ clock_reads' = clock_reads + 1
    /\ file' = Dropped
    /\ pc' = "done"
    /\ UNCHANGED <<clock, ticks, requests, args, harness, fs, timing, pb, body, handle, err>>

\* time passes while the function awaits or draws on the terminal
Tick ==
    /\ pc \in {"send", "create", "loop", "write", "finish"}
    /\ ticks < MaxTicks
    /\ clock' = clock + TickMs
    /\ ticks' = ticks + 1
    /\ UNCHANGED <<pc, clock_reads, requests, args, harness, fs, timing, pb, body, file,
                   handle, result, err>>

Next ==
    \/ BuildFail
    \/ SendRequest
    \/ ConnectFail
    \/ \E resp \in Responses : RecvResponse(resp)
    \/ \E ok \in BOOLEAN : CreateFile(ok)
    \/ \E c \in Chunks : NextChunk(c)
    \/ WriteAll
    \/ \E n \in 0..Len(f_buf) : BlockingWrite(n)
    \/ StreamError
    \/ StreamEnd
    \/ Return
    \/ Tick

Spec == Init /\ [][Next]_vars

\* ------------------------------------------------- format_speed on its own
\* rates are tried this far (in units of 1/den bytes per second) on either
\* side of every threshold
MaxOff == 1
\* denominators of the rates: whole bytes per second, and eighths
Dens == {1, 8}

IsBits(unit) == unit \in {"BitsMetric", "BitsBinary"}
Base(unit) == IF unit \in {"BitsMetric", "BytesMetric"} THEN 1000 ELSE 1024

\* the rates format_speed is called with under a unit: zero, and the rates
\* around base^k / 8 and base^k bytes per second (one 8-bit byte is 8 bits)
Rates(unit) ==
    LET b == Base(unit)
        Near(t, dens) == {[num |-> t * d + o, den |-> d] : d \in dens, o \in -MaxOff..MaxOff}
    IN  {[num |-> 0, den |-> 1]}
        \cup UNION {Near(Pow(b, k) \div 8, IF k = 3 THEN {1} ELSE Dens) : k \in 1..3}
        \cup UNION {Near(Pow(b, k), Dens) : k \in 1..2}
        \cup (IF IsBits(unit) THEN {} ELSE Near(Pow(b, 3), {1}))

FormatInit ==
    /\ NotStarted
    /\ EngineOnly
    /\ ua_ok = TRUE
    /\ save_path = NoPath
    /\ speed_unit = "BitsMetric"
    /\ fs = FsWith(Absent)
    /\ fs0 = fs
    /\ fmt_unit \in SpeedUnit
    /\ fmt_rate \in Rates(fmt_unit)
    /\ fmt_out = <<>>
    /\ Alone

\* everything download_file reads or writes
download == <<pc, clock, ticks, clock_reads, requests, args, fs, timing, pb, body,
              file, handle, result, err>>

\* lines 14-47: format_speed(bytes_per_sec, unit) is called and returns
FormatSpeed ==
    /\ fmt_out = <<>>
    /\ fmt_out' = <<format_speed(fmt_rate.num, fmt_rate.den, fmt_unit)>>
    /\ UNCHANGED <<download, fmt_rate, fmt_unit, self, other, ev, prev, turn, outer>>

SpecFmt == FormatInit /\ [][FormatSpeed]_vars

\* ------------------------------------------- two concurrent invocations
\* Two download_file futures on one runtime.  The variables hold the locals
\* of the invocation that is running; other holds those of the one that is
\* suspended at an await.  The clock and the filesystem are shared.
Locals ==
    [pc |-> pc,
     clock_reads |-> clock_reads,
     requests |-> requests,
     ua_ok |-> ua_ok,
     save_path |-> save_path,
     speed_unit |-> speed_unit,
     show_progress |-> show_progress,
     fs0 |-> fs0,
     start |-> start,
     connect_time |-> connect_time,
     status_code |-> status_code,
     total_size |-> total_size,
     ttfb_start |-> ttfb_start,
     pb |-> pb,
     downloaded |-> downloaded,
     ttfb |-> ttfb,
     file |-> file,
     last_update |-> last_update,
     last_downloaded |-> last_downloaded,
     seen |-> seen,
     chunk |-> chunk,
     f_state |-> f_state,
     f_buf |-> f_buf,
     f_err |-> f_err,
     loop_start |-> loop_start,
     result |-> result,
     err |-> err]

\* (mutant) the byte counter is one static shared by the invocations
SharedCounter(o) == downloaded

\* line 95: `let mut downloaded` is a local of the invocation
OwnCounter(o) == o.downloaded

\* the locals of the running invocation are put aside and those of the other
\* one are brought back
Swap ==
    /\ other # <<>>
    /\ other' = Locals
    /\ self' = 3 - self
    /\ downloaded' = OwnCounter(other)
    /\ pc' = other.pc
    /\ clock_reads' = other.clock_reads
    /\ requests' = other.requests
    /\ ua_ok' = other.ua_ok
    /\ save_path' = other.save_path
    /\ speed_unit' = other.speed_unit
    /\ show_progress' = other.show_progress
    /\ fs0' = other.fs0
    /\ start' = other.start
    /\ connect_time' = other.connect_time
    /\ status_code' = other.status_code
    /\ total_size' = other.total_size
    /\ ttfb_start' = other.ttfb_start
    /\ pb' = other.pb
    /\ ttfb' = other.ttfb
    /\ file' = other.file
    /\ last_update' = other.last_update
    /\ last_downloaded' = other.last_downloaded
    /\ seen' = other.seen
    /\ chunk' = other.chunk
    /\ f_state' = other.f_state
    /\ f_buf' = other.f_buf
    /\ f_err' = other.f_err
    /\ loop_start' = other.loop_start
    /\ result' = other.result
    /\ err' = other.err
    /\ UNCHANGED <<clock, ticks, fs, fmt_rate, fmt_unit, fmt_out, outer>>

\* the runtime suspends the running invocation and resumes the other one
Switch ==
    /\ Swap
    /\ UNCHANGED <<ev, prev, turn>>

\* the body each invocation's server sends: the streams share no byte
StreamOf(i) == IF i = 1 THEN {<<1>>, <<2, 3>>} ELSE {<<5>>, <<6, 7>>}

\* chunks taken so far by the two invocations together
TotalChunks == Len(seen) + Len(other.seen)

InitTwo ==
    /\ NotStarted
    /\ EngineOnly
    /\ ua_ok = TRUE
    /\ save_path = "out.dat"
    /\ speed_unit = "BitsMetric"
    /\ fs = FsWith(Absent)
    /\ fs0 = fs
    /\ NoFormat
    /\ self = 1
    /\ other = [Locals EXCEPT !.save_path = "other.dat", !.speed_unit = "BytesBinary"]
    /\ Unscheduled

NextTwo ==
    \/ SendRequest
    \/ ConnectFail
    \/ \E resp \in {r \in Responses : r.status = 200 /\ r.len > 0} : RecvResponse(resp)
    \/ \E ok \in BOOLEAN : CreateFile(ok)
    \/ \E c \in StreamOf(self) : TotalChunks < MaxChunks /\ NextChunk(c)
    \/ WriteAll
    \/ \E n \in {0, Len(f_buf)} : BlockingWrite(n)
    \/ StreamError
    \/ StreamEnd
    \/ Return
    \/ ticks < MaxTicks \div 2 /\ Tick
    \/ Switch

SpecTwo == InitTwo /\ [][NextTwo]_vars

\* --------------------------------------------------- two runs in lockstep
\* Two runs of download_file that differ in speed_unit (and in the file they
\* save to) are fed the same events: in every round an event is picked
\* (turn 0 to 1), the first run takes it, the locals are swapped (turn 2),
\* the second run takes the same event, and the locals are swapped back.
\* The clock advances between rounds only, so both runs read the same times.

\* the step of download_file that event e stands for
Do(e) ==
    \/ e.act = "SendRequest" /\ SendRequest
    \/ e.act = "ConnectFail" /\ ConnectFail
    \/ e.act = "RecvResponse" /\ RecvResponse(e.arg)
    \/ e.act = "CreateFile" /\ CreateFile(e.arg)
    \/ e.act = "NextChunk" /\ NextChunk(e.arg)
    \/ e.act = "WriteAll" /\ WriteAll
    \/ e.act = "BlockingWrite" /\ BlockingWrite(e.arg)
    \/ e.act = "StreamError" /\ StreamError
    \/ e.act = "StreamEnd" /\ StreamEnd
    \/ e.act = "Return" /\ Return

\* the running invocation can take event e: the guard of its step
CanDo(e) ==
    CASE e.act = "SendRequest" -> pc = "init" /\ ua_ok
      [] e.act \in {"ConnectFail", "RecvResponse"} -> pc = "send"
      [] e.act = "CreateFile" -> pc = "create"
      [] e.act = "NextChunk" -> pc = "loop" /\ Len(seen) < MaxChunks
      [] e.act = "WriteAll" -> pc = "write" /\ (chunk = <<>> \/ f_state = "Idle")
      [] e.act = "BlockingWrite" -> f_state = "Busy" /\ e.arg \in 0..Len(f_buf)
      [] e.act \in {"StreamError", "StreamEnd"} -> pc = "loop"
      [] e.act = "Return" -> pc = "finish"

\* an event the first run can take is picked for the round
Pick(e) ==
    /\ turn = 0
    /\ CanDo(e)
    /\ ev' = e
    /\ prev' = Locals
    /\ turn' = 1
    /\ UNCHANGED <<download, fmt_rate, fmt_unit, fmt_out, self, other, outer>>

\* the run whose turn it is takes the event of the round, once
Step ==
    /\ turn \in {1, 2}
    /\ Locals = prev
    /\ Do(ev)

\* the run has taken its step: the other run is brought in
Pass ==
    /\ turn \in {1, 2}
    /\ Locals # prev
    /\ Swap
    /\ IF turn = 1
       THEN turn' = 2 /\ prev' = other /\ ev' = ev
       ELSE turn' = 0 /\ prev' = <<>> /\ ev' = NoEvent

InitTwin ==
    /\ NotStarted
    /\ EngineOnly
    /\ ua_ok = TRUE
    /\ save_path = "out.dat"
    /\ speed_unit = "BitsMetric"
    /\ fs \in {[p \in Paths |-> o] :
                 o \in {Absent} \cup {[exists |-> TRUE, data |-> d] : d \in OldContents}}
    /\ fs0 = fs
    /\ NoFormat
    /\ self = 1
    /\ \E u \in SpeedUnit \ {speed_unit} :
          other = [Locals EXCEPT !.save_path = "other.dat", !.speed_unit = u]
    /\ Unscheduled

NextTwin ==
    \/ \E a \in {"SendRequest", "ConnectFail", "WriteAll", "StreamError", "StreamEnd",
                  "Return"} : Pick([act |-> a, arg |-> 0])
    \/ \E resp \in Responses : Pick([act |-> "RecvResponse", arg |-> resp])
    \/ \E ok \in BOOLEAN : Pick([act |-> "CreateFile", arg |-> ok])
    \/ \E c \in Chunks : Pick([act |-> "NextChunk", arg |-> c])
    \/ \E n \in 0..Len(f_buf) : Pick([act |-> "BlockingWrite", arg |-> n])
    \/ Step
    \/ Pass
    \/ turn = 0 /\ ticks < MaxTicks \div 2 /\ Tick

SpecTwin == InitTwin /\ [][NextTwin]_vars

\* ------------------------------------- with and without progress, in lockstep
\* Two runs of download_file_with_progress in lockstep as above: the first
\* with show_progress, the second without it; they save to different files
\* or do not save at all.
InitQuiet ==
    /\ NotStarted
    /\ EngineOnly
    /\ ua_ok = TRUE
    /\ save_path \in {NoPath, "out.dat"}
    /\ speed_unit = "BytesMetric"
    /\ fs \in {[p \in Paths |-> o] :
                 o \in {Absent} \cup {[exists |-> TRUE, data |-> d] : d \in OldContents}}
    /\ fs0 = fs
    /\ NoFormat
    /\ self = 1
    /\ other = [Locals EXCEPT !.show_progress = FALSE,
                              !.save_path = IF save_path = NoPath THEN NoPath
                                            ELSE "other.dat"]
    /\ Unscheduled

SpecQuiet == InitQuiet /\ [][NextTwin]_vars

\* ------------------------------------------------------------------- main
\* main (src/src/main.rs) from Args::parse() to its return.  Every await
\* (the fetch of the server list, download_file) ends an action.  Wall-clock
\* time is counted in half days, so that ages of 6.5 and 7 days differ.

\* menu rounds of one interactive session
MaxTests == 2
\* half days a fetch of the server list may take
MaxWait == 1

HalfDaysPerDay == 2
\* servers.rs 127
CACHE_EXPIRY_DAYS == 7

\* servers.rs 79-124: the embedded fallback servers
SERVERS == <<
    [name |-> "Cloudflare (CDN)",
     url |-> <<"https:", "/", "/", "speed.cloudflare.com", "/", "__down", "?", "bytes=100000000">>],
    [name |-> "Tele2 (Global)",
     url |-> <<"http:", "/", "/", "speedtest.tele2.net", "/", "100MB.zip">>],
    [name |-> "Hetzner (Nuremberg)",
     url |-> <<"https:", "/", "/", "nbg1-speed.hetzner.com", "/", "100MB.bin">>],
    [name |-> "Hetzner (Falkenstein)",
     url |-> <<"https:", "/", "/", "fsn1-speed.hetzner.com", "/", "100MB.bin">>],
    [name |-> "Hetzner (Helsinki)",
     url |-> <<"https:", "/", "/", "hel1-speed.hetzner.com", "/", "100MB.bin">>],
    [name |-> "Hetzner (Ashburn VA)",
     url |-> <<"https:", "/", "/", "ash-speed.hetzner.com", "/", "100MB.bin">>],
    [name |-> "Hetzner (Hillsboro OR)",
     url |-> <<"https:", "/", "/", "hil-speed.hetzner.com", "/", "100MB.bin">>],
    [name |-> "Hetzner (Singapore)",
     url |-> <<"https:", "/", "/", "sin-speed.hetzner.com", "/", "100MB.bin">>],
    [name |-> "Vultr (New Jersey)",
     url |-> <<"https:", "/", "/", "nj-us-ping.vultr.com", "/", "vultr.com.100MB.bin">>],
    [name |-> "Vultr (Silicon Valley)",
     url |-> <<"https:", "/", "/", "sjo-ca-us-ping.vultr.com", "/", "vultr.com.100MB.bin">>],
    [name |-> "Vultr (Singapore)",
     url |-> <<"https:", "/", "/", "sgp-ping.vultr.com", "/", "vultr.com.100MB.bin">>] >>

\* URLs given on the command line: a file, a file and a query that holds a
\* slash, a directory, a bare host
Urls == {<<"http:", "/", "/", "host", "/", "big.bin">>,
         <<"http:", "/", "/", "host", "/", "get", "?", "f=a", "/", "b">>,
         <<"http:", "/", "/", "host", "/", "dir", "/">>,
         <<"http:", "/", "/", "host">>}
\* values of --format
Formats == {"json", "JSON", "json-compact", "compact", "csv", "xml"}
\* ages of the cache file, in half days: written later than now (the clock
\* was set back), 6.5 days, 7 days
Ages == {-1, 13, 14}
\* a ServerMetadata: its name and URL (one string here) and its enabled flag
Server(n, e) == [name |-> n, enabled |-> e]
\* the remote list of the cache file, and the lists a fetch may return
OldList == [version |-> "v1", servers |-> <<Server("old", TRUE)>>]
NewLists == {[version |-> "v2", servers |-> <<Server("new", TRUE), Server("off", FALSE)>>],
             [version |-> "v3", servers |-> <<>>]}
CacheFiles ==
    {NoFile, Corrupt}
    \cup {FileOf([health |-> {"old"}, cache_timestamp |-> 0 - a, remote_list |-> l]) :
            a \in Ages, l \in {<<>>, <<OldList>>}}
\* what fetch_remote_server_list may return
FetchResults == {[ok |-> FALSE]} \cup {[ok |-> TRUE, list |-> l] : l \in NewLists}

\* downloader.rs 147-148: url.split('?').next(): the part before the first '?'
BeforeQuery(u) ==
    LET qs == {i \in 1..Len(u) : u[i] = "?"}
    IN  IF qs = {} THEN u ELSE SubSeq(u, 1, (CHOOSE i \in qs : \A j \in qs : i <= j) - 1)

\* downloader.rs 149: s.split('/').last(): the part after the last '/'
LastSegment(u) ==
    LET ss == {i \in 1..Len(u) : u[i] = "/"}
    IN  IF ss = {} THEN u
        ELSE SubSeq(u, (CHOOSE i \in ss : \A j \in ss : i >= j) + 1, Len(u))

\* downloader.rs 146-153
extract_filename(u) ==
    LET l == LastSegment(BeforeQuery(u))
    IN  IF l = <<>> THEN <<"speedtest_file.dat">> ELSE l

\* output.rs 17: s.to_lowercase(), on the values of --format tried
Lower(str) == IF str = "JSON" THEN "json" ELSE str

\* output.rs 16-23
from_string(str) ==
    CASE Lower(str) = "json" -> "Json"
      [] Lower(str) \in {"json-compact", "compact"} -> "JsonCompact"
      [] Lower(str) = "csv" -> "Csv"
      [] OTHER -> "Human"

\* main.rs 78-88
ResolveFormat ==
    IF argv.json THEN (IF argv.compact THEN "JsonCompact" ELSE "Json")
    ELSE IF argv.format # None THEN from_string(argv.format)
    ELSE "Human"

\* (mutant) --interactive wins over --non-interactive
InteractiveFirst ==
    IF argv.interactive THEN TRUE
    ELSE IF argv.non_interactive THEN FALSE
    ELSE config_interactive

\* main.rs 122-128
ResolveMode ==
    IF argv.non_interactive THEN FALSE
    ELSE IF argv.interactive THEN TRUE
    ELSE config_interactive

\* Duration::num_days, for a duration of e half days: whole days, toward zero
NumDays(e) == IF e >= 0 THEN e \div HalfDaysPerDay ELSE 0 - ((0 - e) \div HalfDaysPerDay)

\* (mutant) a cache in its seventh day is stale already
ShouldUpdateInSeventhDay(data, t) ==
    NumDays(t - data.cache_timestamp) + 1 >= CACHE_EXPIRY_DAYS

\* servers.rs 170-174
should_update_cache(data, t) ==
    NumDays(t - data.cache_timestamp) >= CACHE_EXPIRY_DAYS

\* servers.rs 137-147: load_local_server_data at time t
Load(f, t) == IF f.state = "ok" THEN f.data[1] ELSE DefaultData(t)

\* servers.rs 149-157: save_local_server_data writes the file, or fails
\* before writing, or fails after truncating it
Save(data, outcome) ==
    CASE outcome = "ok" -> FileOf(data)
      [] outcome = "failed" -> cache_file
      [] outcome = "torn" -> Corrupt
SaveOutcomes == {"ok", "failed", "torn"}

\* (mutant) a failed fetch forgets the cached list
FetchedOrNothing(data, r, t) ==
    IF ~r.ok THEN [data EXCEPT !.remote_list = <<>>]
    ELSE [data EXCEPT !.remote_list = <<r.list>>, !.cache_timestamp = t]

\* main.rs 66-68: `if let Ok(remote_list)`: the data after a fetch returned r
Fetched(data, r, t) ==
    IF ~r.ok THEN data
    ELSE [data EXCEPT !.remote_list = <<r.list>>, !.cache_timestamp = t]

InitMain ==
    /\ NotStarted
    /\ ua_ok = TRUE
    /\ save_path = NoPath
    /\ speed_unit = "BitsMetric"
    /\ fs = FsWith(Absent)
    /\ fs0 = fs
    /\ NoFormat
    /\ Alone
    /\ MainNotStarted
    /\ argv \in [url : {<<>>} \cup {<<u>> : u \in Urls},
                 interactive : BOOLEAN, non_interactive : BOOLEAN,
                 format : {None} \cup Formats, compact : BOOLEAN, json : BOOLEAN,
                 update_servers : BOOLEAN]
    /\ config_interactive \in BOOLEAN
    /\ cache_file \in CacheFiles
    /\ server_data = DefaultData(0)
    /\ merged = <<>>
    /\ NoGui

engine == <<download, fmt_rate, fmt_unit, fmt_out, self, other, ev, prev, turn>>

\* main.rs 55-65: the arguments and the configuration are read;
\* --update-servers fetches the list and nothing else; otherwise the cache
\* is loaded and, if it is stale, the list is fetched
Startup ==
    /\ main_pc = "start"
    /\ IF argv.update_servers
       THEN /\ main_pc' = "update"
            /\ fetches' = fetches + 1
            /\ UNCHANGED server_data
       ELSE /\ server_data' = Load(cache_file, now)
            /\ IF should_update_cache(server_data', now)
               THEN main_pc' = "fetch" /\ fetches' = fetches + 1
               ELSE main_pc' = "resolve" /\ UNCHANGED fetches
    /\ UNCHANGED <<engine, merged, gui, argv, config_interactive, now, waited, cache_file,
                   output_format, interactive_mode, calls, printed, exit>>

\* the fetch of the server list takes time (the client times out after 10 s;
\* half a day stands for any delay)
WaitList ==
    /\ main_pc \in {"fetch", "update"}
    /\ waited < MaxWait
    /\ now' = now + 1
    /\ waited' = waited + 1
    /\ UNCHANGED <<engine, merged, gui, main_pc, argv, config_interactive, cache_file,
                   server_data, fetches, output_format, interactive_mode, calls, printed,
                   exit>>

\* main.rs 66-71: the fetch returned r; on Ok the list and the timestamp are
\* replaced and the data saved (`.ok()`: a failed save is ignored)
RefreshDone(r, saved) ==
    /\ main_pc = "fetch"
    /\ server_data' = Fetched(server_data, r, now)
    /\ cache_file' = IF r.ok THEN Save(server_data', saved) ELSE cache_file
    /\ main_pc' = "resolve"
    /\ UNCHANGED <<engine, merged, gui, argv, config_interactive, now, waited, fetches,
                   output_format, interactive_mode, calls, printed, exit>>

\* main.rs 227-255: update_server_list after its fetch returned r
UpdateDone(r, saved) ==
    /\ main_pc = "update"
    /\ IF ~r.ok
       THEN /\ exit' = "Err"
            /\ UNCHANGED <<server_data, cache_file>>
       ELSE /\ server_data' = Fetched(Load(cache_file, now), r, now)
            /\ cache_file' = Save(server_data', saved)
            /\ exit' = "Ok"
    /\ main_pc' = "done"
    /\ UNCHANGED <<engine, merged, gui, argv, config_interactive, now, waited, fetches,
                   output_format, interactive_mode, calls, printed>>

\* a call of download_file(url, save_path, ..)
Call(u, path) == [url |-> u, save_path |-> path]

\* (mutant) the file of a URL argument is not saved
UrlCallUnsaved == Call(argv.url[1], <<>>)

\* main.rs 92-93: download_file(&url, Some(&filename), ..)
UrlCall == Call(argv.url[1], <<extract_filename(argv.url[1])>>)

\* main.rs 73-93, 121-143: the output format is resolved; a URL argument is
\* downloaded; otherwise the mode is resolved, and the menu is shown or the
\* first embedded server is downloaded
Resolve ==
    /\ main_pc = "resolve"
    /\ output_format' = ResolveFormat
    /\ IF argv.url # <<>>
       THEN /\ calls' = Append(calls, UrlCall)
            /\ main_pc' = "download_url"
            /\ UNCHANGED interactive_mode
       ELSE /\ interactive_mode' = ResolveMode
            /\ IF interactive_mode'
               THEN main_pc' = "menu" /\ UNCHANGED calls
               ELSE /\ calls' = Append(calls, Call(SERVERS[1].url, <<>>))
                    /\ main_pc' = "download_default"
    /\ UNCHANGED <<engine, merged, gui, argv, config_interactive, now, waited, cache_file,
                   server_data, fetches, printed, exit>>

\* main.rs 169-196: show_menu returns a selection (or fails): the session
\* ends, or the selected or typed URL is downloaded
Menu(sel) ==
    /\ main_pc = "menu"
    /\ IF sel.kind \in {"Err", "Quit"}
       THEN /\ main_pc' = "done"
            /\ exit' = "Ok"
            /\ UNCHANGED calls
       ELSE /\ Len(calls) < MaxTests
            /\ calls' = Append(calls, IF sel.kind = "Predefined"
                                      THEN Call(SERVERS[sel.index].url, <<>>)
                                      ELSE Call(sel.url, sel.save_path))
            /\ main_pc' = "download_menu"
            /\ UNCHANGED exit
    /\ UNCHANGED <<engine, merged, gui, argv, config_interactive, now, waited, cache_file,
                   server_data, fetches, output_format, interactive_mode, printed>>

Selections ==
    {[kind |-> "Err"], [kind |-> "Quit"],
     [kind |-> "Predefined", index |-> 2],
     [kind |-> "Custom", url |-> <<"http:", "/", "/", "host">>, save_path |-> <<<<"x">>>>]}

\* main.rs 93-118, 143-164, 196-221: download_file returned: Err ends main
\* (`?`); Ok is printed in the resolved format, and the menu is shown again
\* or main returns
DownloadDone(ok) ==
    /\ main_pc \in {"download_url", "download_default", "download_menu"}
    /\ IF ok
       THEN /\ printed' = output_format
            /\ IF main_pc = "download_menu"
               THEN main_pc' = "menu" /\ UNCHANGED exit
               ELSE main_pc' = "done" /\ exit' = "Ok"
       ELSE /\ main_pc' = "done"
            /\ exit' = "Err"
            /\ UNCHANGED printed
    /\ UNCHANGED <<engine, merged, gui, argv, config_interactive, now, waited, cache_file,
                   server_data, fetches, output_format, interactive_mode, calls>>

NextMain ==
    \/ Startup
    \/ WaitList
    \/ \E r \in FetchResults, saved \in SaveOutcomes : RefreshDone(r, saved)
    \/ \E r \in FetchResults, saved \in SaveOutcomes : UpdateDone(r, saved)
    \/ Resolve
    \/ \E sel \in Selections : Menu(sel)
    \/ \E ok \in BOOLEAN : DownloadDone(ok)

SpecMain == InitMain /\ [][NextMain]_vars

\* --------------------------------------------- get_merged_server_list alone
\* servers of a cached remote list
MaxServers == 3
ServerNames == {"a", "b"}

RECURSIVE ListsUpTo(_)
\* the server lists of at most n servers
ListsUpTo(n) ==
    IF n = 0 THEN {<<>>}
    ELSE LET shorter == ListsUpTo(n - 1)
         IN  shorter \cup {Append(l, Server(nm, e)) :
                             l \in shorter, nm \in ServerNames, e \in BOOLEAN}

\* servers.rs 184-196: the embedded servers as ServerMetadata, all enabled
Embedded == [i \in 1..Len(SERVERS) |-> Server(SERVERS[i].name, TRUE)]

\* (mutant) the embedded servers are added to the remote ones
SourceBoth(data) ==
    IF data.remote_list # <<>> THEN data.remote_list[1].servers \o Embedded ELSE Embedded

\* servers.rs 177-197: the remote servers if there is a list, else the
\* embedded ones
Source(data) ==
    IF data.remote_list # <<>> THEN data.remote_list[1].servers ELSE Embedded

RECURSIVE Enabled(_)
\* servers.rs 200-202: into_iter().filter(|s| s.enabled).collect()
Enabled(l) ==
    IF l = <<>> THEN <<>>
    ELSE IF Head(l).enabled THEN <<Head(l)>> \o Enabled(Tail(l)) ELSE Enabled(Tail(l))

\* servers.rs 176-203
get_merged_server_list(data) == Enabled(Source(data))

InitMerge ==
    /\ NotStarted
    /\ ua_ok = TRUE
    /\ save_path = NoPath
    /\ speed_unit = "BitsMetric"
    /\ fs = FsWith(Absent)
    /\ fs0 = fs
    /\ NoFormat
    /\ Alone
    /\ MainNotStarted
    /\ argv = NoArgs
    /\ config_interactive = FALSE
    /\ cache_file = NoFile
    /\ \E rl \in {<<>>} \cup {<<[version |-> "v1", servers |-> l]>> : l \in ListsUpTo(MaxServers)} :
          server_data = [DefaultData(0) EXCEPT !.remote_list = rl]
    /\ merged = <<>>
    /\ NoGui

\* get_merged_server_list(&server_data) is called and returns
Merge ==
    /\ merged = <<>>
    /\ merged' = <<get_merged_server_list(server_data)>>
    /\ UNCHANGED <<engine, startup, gui>>

SpecMerge == InitMerge /\ [][Merge]_vars

\* ---------------------------------------------------------------- the GUI
\* The app component of src/src/gui.rs.  Event handlers and spawned tasks run
\* on the one thread of the UI, so a handler, and the part of a task between
\* two awaits, is one action.

\* presses of the Run button in one session
MaxPresses == 4
\* what a download task may end with: Ok(DownloadResult) or Err(e)
Outcomes == {[ok |-> TRUE, mbps |-> 8], [ok |-> TRUE, mbps |-> 80], [ok |-> FALSE]}

InitGui ==
    /\ NotStarted
    /\ ua_ok = TRUE
    /\ save_path = NoPath
    /\ speed_unit = "BitsMetric"
    /\ fs = FsWith(Absent)
    /\ fs0 = fs
    /\ NoFormat
    /\ Alone
    /\ MainNotStarted
    /\ argv = NoArgs
    /\ config_interactive = FALSE
    /\ cache_file \in {NoFile}
                       \cup {FileOf([DefaultData(0) EXCEPT !.remote_list = <<l>>]) :
                               l \in NewLists}
    /\ server_data = Load(cache_file, now)
    /\ merged = <<>>
    \* gui.rs 54-57
    /\ servers = get_merged_server_list(server_data)
    /\ SignalsInit

\* gui.rs 175-177: a row of the server list is clicked
SelectServer(idx) ==
    /\ idx \in 0..(Len(servers) - 1)
    /\ selected_server' = idx
    /\ UNCHANGED <<engine, startup, merged, servers, test_running, last_result,
                   status_message, tasks, presses>>

\* (mutant) the handler does not look at test_running
NeverRunning == FALSE

\* gui.rs 65-67: `if *test_running.read() { return; }`
AlreadyRunning == test_running

\* gui.rs 64-104: run_test, the handler of the Run button: nothing if a test
\* is running or no server is selected; otherwise test_running is set, the
\* status is shown and the download task is spawned
RunTest ==
    /\ presses < MaxPresses
    /\ presses' = presses + 1
    /\ IF ~AlreadyRunning /\ selected_server < Len(servers)
       THEN /\ test_running' = TRUE
            /\ status_message' = <<"Testing", servers[selected_server + 1].name>>
            /\ tasks' = Append(tasks, servers[selected_server + 1].name)
       ELSE UNCHANGED <<test_running, status_message, tasks>>
    /\ UNCHANGED <<engine, startup, merged, servers, selected_server, last_result>>

\* gui.rs 87-101: the download of a task returns: the result or the error is
\* shown, and test_running is reset
TaskDone(i, out) ==
    /\ i \in 1..Len(tasks)
    /\ IF out.ok
       THEN /\ last_result' = <<[server_name |-> tasks[i], speed_mbps |-> out.mbps]>>
            /\ status_message' = <<"Test complete", out.mbps>>
       ELSE /\ status_message' = <<"Error">>
            /\ UNCHANGED last_result
    /\ test_running' = FALSE
    /\ tasks' = SubSeq(tasks, 1, i - 1) \o SubSeq(tasks, i + 1, Len(tasks))
    /\ UNCHANGED <<engine, startup, merged, servers, selected_server, presses>>

\* some task finishes
Finish == \E i \in 1..Len(tasks), out \in Outcomes : TaskDone(i, out)

NextGui ==
    \/ \E idx \in 0..1 : SelectServer(idx)
    \/ RunTest
    \/ Finish

SpecGui == InitGui /\ [][NextGui]_vars
\* every download ends, with a result or with an error, and the runtime
\* resumes its task
SpecGuiFair == SpecGui /\ WF_vars(Finish)
\* ================================================================ claims
Succeeded == pc = "done"
Saving == save_path # NoPath

\* C1: the running counter equals the sum of the lengths of the chunks
\* processed so far, and a successful call returns that sum as bytes_downloaded.
C1_BytesAreSumOfChunks ==
    /\ downloaded = SumLen(seen)
    /\ Succeeded => result.bytes_downloaded = SumLen(seen)

C1_Witness ==
    /\ Succeeded
    /\ seen = << <<1>>, <<2, 3>> >>
    /\ result.bytes_downloaded = 3

\* C2 (as claimed): after a successful call with a save path, and with every
\* write of the handle completed, the file holds exactly the chunks in
\* arrival order, so its length is bytes_downloaded.
C2_FileHoldsAllChunks ==
    (Succeeded /\ Saving /\ f_state = "Idle") =>
        /\ fs[save_path].exists
        /\ fs[save_path].data = Concat(seen)
        /\ Len(fs[save_path].data) = result.bytes_downloaded

\* C3 (as claimed): after a stream error the call returns an error and no
\* result, and the file holds exactly the bytes of the chunks delivered
\* before the error.
C3_ErrorLeavesPrefix ==
    (pc = "error" /\ err = "stream") =>
        /\ ~result.returned
        /\ (Saving /\ f_state = "Idle") =>
              /\ fs[save_path].exists
              /\ fs[save_path].data = Concat(seen)

\* C4: for every status code of a received response the call drains the body
\* and returns that code and the body byte count; an error is returned only
\* by a failed build, send, create, stream read or write, never by the status.
C4_StatusIsNoError ==
    /\ Succeeded => /\ result.status_code = status_code
                    /\ status_code \in {r.status : r \in Responses}
                    /\ result.bytes_downloaded = SumLen(seen)
    /\ pc = "error" => err \in {"build", "send", "create", "stream", "write"}

C4_Witness ==
    /\ Succeeded
    /\ result.status_code = 404
    /\ result.bytes_downloaded = 3

\* C5: every successful result has 0 <= connect_time <= total_time and
\* ttfb >= 0.
C5_TimesOrdered ==
    Succeeded => /\ 0 <= result.connect_time
                 /\ result.connect_time <= result.total_time
                 /\ result.ttfb >= 0

C5_Witness ==
    /\ Succeeded
    /\ result.connect_time = TickMs
    /\ result.total_time = TickMs
    /\ seen # <<>>
    /\ result.ttfb = 0

\* C6: a body stream that ends without yielding a chunk gives ttfb equal to
\* connect_time and bytes_downloaded equal to 0.
C6_EmptyBodyTtfb ==
    (Succeeded /\ seen = <<>>) =>
        /\ result.ttfb = result.connect_time
        /\ result.bytes_downloaded = 0

C6_Witness ==
    /\ Succeeded
    /\ seen = <<>>
    /\ result.connect_time > 0

\* C7: ttfb is set by the step that takes the first chunk, to the time elapsed
\* since ttfb_start, the instant the headers had arrived (start + connect_time);
\* no later step changes it, and it is the ttfb returned.
C7_TtfbOnFirstChunkOnly ==
    /\ [](pc \in {"create", "loop", "write", "finish", "done"} =>
             ttfb_start >= start + connect_time)
    /\ []((Succeeded /\ seen # <<>>) => result.ttfb = ttfb)
    /\ [][/\ ttfb # NoneF => ttfb' = ttfb
          /\ (ttfb = NoneF /\ ttfb' # NoneF) =>
                /\ seen = <<>>
                /\ Len(seen') = 1
                /\ ttfb' = clock - ttfb_start]_vars

C7_Witness ==
    /\ Succeeded
    /\ Len(seen) = 2
    /\ result.ttfb = TickMs
    /\ result.connect_time = TickMs
    /\ result.total_time = 3 * TickMs

\* C8: when creating the file fails, the call returns the error before any
\* chunk has been read (none consumed, the counter still 0); and no chunk
\* is ever read before the file of a given save path has been created.
C8_CreateFailsBeforeReading ==
    /\ (pc = "error" /\ err = "create") =>
          /\ seen = <<>>
          /\ downloaded = 0
          /\ file = "None"
          /\ fs = fs0
    /\ (Saving /\ seen # <<>>) => file # "None"

C8_Witness ==
    /\ pc = "error"
    /\ err = "create"
    /\ ticks > 0

\* C9: without a save path the call creates, truncates and writes no file,
\* on success and on error: the filesystem stays as it was.
C9_NoPathNoFile ==
    ~Saving => /\ fs = fs0
               /\ file = "None"
               /\ f_state = "Idle"

C9_Witness ==
    /\ ~Saving
    /\ Succeeded
    /\ result.bytes_downloaded = 4

\* C10 (as claimed): a call that has returned has issued exactly one GET.
C10_ExactlyOneGet ==
    pc \in {"done", "error"} => requests = 1

\* C10 (amended): a call issues at most one GET, and exactly one unless
\* building the client failed; once an error is returned nothing is sent or
\* read again.
C10_AtMostOneGet ==
    /\ [](requests <= 1)
    /\ []((pc # "init" /\ err # "build") => requests = 1)
    /\ []((pc = "error" /\ err = "build") => requests = 0)
    /\ [][pc = "error" => /\ pc' = "error"
                          /\ requests' = requests
                          /\ seen' = seen
                          /\ err' = err]_vars

C10_Witness ==
    /\ pc = "error"
    /\ err \in {"send", "stream", "write"}
    /\ requests = 1
\* a step that refreshes the speed message (it moves last_update)
Refreshed == pc # "send" /\ last_update' # last_update

\* C11 (as claimed): the speed message changes only in a step that takes a
\* chunk, consecutive refreshes are at least 100 ms apart, and the first
\* refresh comes at least 100 ms after the loop was entered.
C11_RefreshSpacingFromLoopStart ==
    [][/\ pb'.message # pb.message => Refreshed
       /\ Refreshed => /\ Len(seen') = Len(seen) + 1
                       /\ last_update' - last_update >= REFRESH_MS
                       /\ last_update' - loop_start >= REFRESH_MS]_vars

\* C11 (amended): the speed message changes only in a step that takes a
\* chunk, and every refresh comes at least 100 ms after the previous one, the
\* first at least 100 ms after last_update was initialised, which is when the
\* headers had arrived and before the save file is created.
C11_RefreshSpacing ==
    /\ [](pc \in {"create", "loop"} /\ seen = <<>> => last_update = ttfb_start)
    /\ [][/\ pb'.message # pb.message => Refreshed
          /\ Refreshed => /\ Len(seen') = Len(seen) + 1
                          /\ last_update' = clock
                          /\ last_update' - last_update >= REFRESH_MS]_vars

C11_Witness ==
    /\ seen = << <<1>>, <<2, 3>> >>
    /\ last_update = ttfb_start + 2 * REFRESH_MS
    /\ last_downloaded = 3
    /\ pb.message = format_speed(2 * 1000, REFRESH_MS, speed_unit)
\* C12: at every refresh the message is the formatted speed of the bytes
\* received since the previous refresh over the time since the previous
\* refresh; the refresh sets last_downloaded to downloaded and last_update to
\* the refresh time, and no other step of the loop moves last_downloaded.
C12_InstantaneousSpeed ==
    /\ [](last_downloaded <= downloaded)
    /\ [][/\ Refreshed =>
                /\ pb'.message = format_speed((SumLen(seen') - last_downloaded) * 1000,
                                              clock - last_update, speed_unit)
                /\ last_downloaded' = SumLen(seen')
                /\ last_update' = clock
          /\ (~Refreshed /\ pc # "send") => last_downloaded' = last_downloaded]_vars

C12_Witness ==
    /\ seen = << <<2, 3>>, <<1>> >>
    /\ last_update = ttfb_start + 2 * REFRESH_MS
    /\ last_downloaded = 3
    /\ pb.message = format_speed(1 * 1000, REFRESH_MS, speed_unit)
    /\ pb.message # format_speed(3 * 1000, 2 * REFRESH_MS, speed_unit)

\* C13 (as claimed): total_time is read when the exhaustion of the stream is
\* observed, before the progress display is finalised: whenever the display
\* is finished, total_time has been read (it is read in the step that
\* returns the result).
C13_TotalTimeBeforeClear ==
    pb.finished => result.returned

\* C14 (as claimed): a successful transfer reads the clock exactly four times.
C14_FourClockReads ==
    Succeeded => clock_reads = 4

\* C14 (amended): a successful transfer of n chunks reads the clock five times
\* (start, connect_time, ttfb_start, last_update, total_time), once more per
\* chunk for the refresh check and once more on the first chunk for ttfb.
C14_ClockReadsPerChunk ==
    Succeeded => clock_reads = 5 + Len(seen) + (IF seen = <<>> THEN 0 ELSE 1)

C14_Witness ==
    /\ Succeeded
    /\ Len(seen) = 2
    /\ clock_reads = 8

\* the locals of invocation i, running or suspended
View(i) == IF self = i THEN Locals ELSE other

\* the locals without the unit, the path and the progress message
Unitless(v) == [v EXCEPT !.speed_unit = "", !.save_path = "", !.pb.message = <<>>]

\* C15: two runs fed the same response, chunks, write outcomes and clock
\* readings that differ in speed_unit take the same steps, return identical
\* results and leave identical files; they differ in the progress message
\* at most.
C15_UnitOnlyInMessage ==
    /\ turn = 0 =>
          /\ View(1).speed_unit # View(2).speed_unit
          /\ View(1).result = View(2).result
          /\ fs[View(1).save_path] = fs[View(2).save_path]
          /\ Unitless(View(1)) = Unitless(View(2))
    /\ (turn = 2 /\ Locals = prev) => CanDo(ev)

C15_Witness ==
    /\ turn = 0
    /\ View(1).pc = "done" /\ View(2).pc = "done"
    /\ View(1).result.bytes_downloaded = 3
    /\ View(1).pb.message # <<>>
    /\ View(1).pb.message # View(2).pb.message
    /\ fs["out.dat"].data = <<1, 2, 3>> /\ fs["other.dat"].data = <<1, 2, 3>>

\* the `?` sites of download_file
Sites == {"build", "send", "create", "stream", "write"}

\* what the caller receives from a `?` site: the library's error, boxed as
\* Box<dyn std::error::Error> (line 63); its concrete type and, for a
\* reqwest::Error, its kind can be recovered by downcasting
Boxed(site) ==
    CASE site = "build" -> [type |-> "reqwest::Error", kind |-> "Builder"]
      [] site = "send" -> [type |-> "reqwest::Error", kind |-> "Request"]
      [] site = "stream" -> [type |-> "reqwest::Error", kind |-> "Body"]
      [] site \in {"create", "write"} -> [type |-> "std::io::Error", kind |-> "io"]

\* the phase of a failure, in the taxonomy of the specification
Phase(site) ==
    CASE site \in {"build", "send"} -> "ConnectionError"
      [] site = "stream" -> "TransferError"
      [] site \in {"create", "write"} -> "FileSystemError"

\* C16 (as claimed): every failure is returned as an error that identifies its
\* phase: errors of different phases are different for the caller, and when
\* the call has returned no failed write of the save file is left unreported.
C16_FailuresReturnedByPhase ==
    /\ pc = "error" =>
          \A s \in Sites : Phase(s) # Phase(err) => Boxed(s) # Boxed(err)
    /\ pc \in {"done", "error"} => ~f_err

\* the bytes write_all has accepted (returned Ok for): every chunk taken,
\* except the one whose write_all has not returned or returned the error
Accepted ==
    IF pc = "write" \/ (pc = "error" /\ err = "write")
    THEN Concat(SubSeq(seen, 1, Len(seen) - 1))
    ELSE Concat(seen)

\* C19 (as claimed): when download_file has returned (normally, on a stream
\* error or on a write error) after opening the save file, the handle has
\* been flushed and closed: no write is in flight, no failed write is left
\* unreported, and every byte accepted by a write is in the file.
C19_FlushedAndClosedAtReturn ==
    (pc \in {"done", "error"} /\ file = "Dropped") =>
        /\ f_state = "Idle"
        /\ ~f_err
        /\ fs[save_path].data = Accepted

\* the name of the unit k steps above the smallest one
UnitName(unit, k) ==
    CASE unit = "BitsMetric" -> <<"bps", "Kbps", "Mbps", "Gbps">>[k + 1]
      [] unit = "BitsBinary" -> <<"bps", "Kibps", "Mibps", "Gibps">>[k + 1]
      [] unit = "BytesMetric" -> <<"B/s", "kB/s", "MB/s", "GB/s">>[k + 1]
      [] unit = "BytesBinary" -> <<"B/s", "KiB/s", "MiB/s", "GiB/s">>[k + 1]

\* the rate in the units of the convention, as a fraction over fmt_rate.den:
\* bits in the bits conventions (bytes times 8), bytes in the bytes ones
UnitsNum == IF IsBits(fmt_unit) THEN 8 * fmt_rate.num ELSE fmt_rate.num

\* C17: in all four conventions a rate of exactly base^k units (k = 1, 2, 3)
\* is printed with value 1 in the k-th larger unit, and a rate below base^k
\* and not below base^(k-1) is printed in the (k-1)-th unit; the rate is
\* counted in bits (times 8) in the bits conventions only.
C17_ThresholdsInclusive ==
    fmt_out # <<>> =>
        \A k \in 1..3 :
            LET t == Pow(Base(fmt_unit), k)
                whole == UnitsNum \div fmt_rate.den
                out == fmt_out[1]
            IN  /\ (whole = t /\ UnitsNum % fmt_rate.den = 0) =>
                      /\ out.unit = UnitName(fmt_unit, k)
                      /\ out.val = Pow(10, out.dec)
                /\ (whole < t /\ whole >= Pow(Base(fmt_unit), k - 1)) =>
                      out.unit = UnitName(fmt_unit, k - 1)

C17_Witness ==
    /\ fmt_unit = "BitsBinary"
    /\ fmt_rate = [num |-> Pow(1024, 3) \div 8, den |-> 1]
    /\ fmt_out = <<Text(100, 2, "Gibps")>>

\* C18 (as claimed): a rate of zero is printed as zero with two decimals in
\* the smallest unit of the convention ("0.00 bps", "0.00 B/s").
C18_ZeroRateTwoDecimals ==
    (fmt_out # <<>> /\ fmt_rate.num = 0) =>
        fmt_out[1] = Text(0, 2, UnitName(fmt_unit, 0))

IsPrefix(p, s) == Len(p) <= Len(s) /\ p = SubSeq(s, 1, Len(p))

\* C20: two concurrent invocations with distinct save paths do not interfere,
\* however their steps interleave: each counts and returns the bytes of its
\* own chunks, keeps its own ttfb and refresh state, and each file is touched
\* by its own invocation only and holds bytes of its own stream only, in
\* order (all of them once its writes have landed).
C20_NoInterference ==
    \A i \in {1, 2} :
        LET v == View(i)
        IN  /\ \A j \in 1..Len(v.seen) : v.seen[j] \in StreamOf(i)
            /\ v.downloaded = SumLen(v.seen)
            /\ v.pc = "done" => v.result.bytes_downloaded = SumLen(v.seen)
            /\ (v.ttfb # NoneF) <=> (v.seen # <<>>)
            /\ v.last_downloaded <= v.downloaded
            /\ v.pb.position = v.downloaded
            /\ IF v.file = "None"
               THEN fs[v.save_path] = v.fs0[v.save_path]
               ELSE /\ fs[v.save_path].exists
                    /\ IsPrefix(fs[v.save_path].data, Concat(v.seen))
                    /\ (v.f_state = "Idle" /\ ~v.f_err /\ v.pc \in {"loop", "finish", "done"})
                          => fs[v.save_path].data = Concat(v.seen)

C20_Witness ==
    /\ View(1).pc = "done" /\ View(2).pc = "done"
    /\ View(1).start = View(2).start
    /\ View(1).result.total_time = TickMs /\ View(2).result.total_time = TickMs
    /\ View(1).seen = << <<2, 3>> >> /\ View(2).seen = << <<5>> >>
    /\ fs["out.dat"].data = <<2, 3>> /\ fs["other.dat"].data = <<5>>

\* C26: a successful result has ttfb <= total_time, and when at least one
\* chunk was observed also connect_time + ttfb <= total_time.  (With an empty
\* body ttfb is connect_time and the sum can exceed total_time: C26_Witness.)
C26_TtfbWithinTotal ==
    Succeeded =>
        /\ result.ttfb <= result.total_time
        /\ seen # <<>> => result.connect_time + result.ttfb <= result.total_time

C26_Witness ==
    /\ Succeeded
    /\ seen = <<>>
    /\ result.ttfb = result.connect_time
    /\ result.connect_time + result.ttfb > result.total_time

\* C27: when the call fails before a response is received, no file has been
\* created or truncated: the filesystem is as it was when the call started,
\* so a file that existed at save_path keeps its contents.
C27_ConnectFailKeepsFile ==
    (pc = "error" /\ err \in {"build", "send"}) =>
        /\ fs = fs0
        /\ file = "None"
        /\ f_state = "Idle"

C27_Witness ==
    /\ pc = "error"
    /\ err = "send"
    /\ Saving
    /\ fs[save_path] = [exists |-> TRUE, data |-> <<9, 9, 9>>]

\* the locals without the progress bar, its switch and the path
Barless(v) == [v EXCEPT !.show_progress = TRUE, !.save_path = "", !.pb = NoPb]

Resolved ==
    \/ main_pc \in {"download_url", "download_default", "download_menu", "menu"}
    \/ main_pc = "done" /\ ~argv.update_servers

\* JSON output is selected, through --json or through --format json
JsonSelected == argv.json \/ (argv.format # None /\ Lower(argv.format) = "json")

\* C22: whenever --compact is set and JSON output is selected (through --json
\* or through --format json), the resolved output format is JsonCompact; and
\* --json alone resolves to the format --format json resolves to.
C22_CompactJson ==
    Resolved =>
        /\ (argv.compact /\ JsonSelected) => output_format = "JsonCompact"
        /\ (argv.json /\ ~argv.compact) => output_format = from_string("json")

\* C23: the run mode: --non-interactive wins over --interactive, and
\* config.interactive counts only when neither flag is given; the menu is
\* shown in interactive mode and the first embedded server is downloaded
\* once otherwise.  A URL argument wins over all of them: exactly one
\* download is made, of that URL, saved under extract_filename(url).
C23_ModeAndUrl ==
    /\ (Resolved /\ argv.url = <<>>) =>
          /\ argv.non_interactive => ~interactive_mode
          /\ (argv.interactive /\ ~argv.non_interactive) => interactive_mode
          /\ (~argv.interactive /\ ~argv.non_interactive) =>
                interactive_mode = config_interactive
          /\ ~interactive_mode =>
                /\ main_pc \in {"download_default", "done"}
                /\ calls = <<[url |-> SERVERS[1].url, save_path |-> <<>>]>>
          /\ interactive_mode => main_pc \in {"menu", "download_menu", "done"}
    /\ (Resolved /\ argv.url # <<>>) =>
          /\ main_pc \in {"download_url", "done"}
          /\ calls = <<[url |-> argv.url[1],
                        save_path |-> <<extract_filename(argv.url[1])>>]>>

C23_Witness ==
    /\ main_pc = "done" /\ exit = "Ok"
    /\ argv.url = <<<<"http:", "/", "/", "host", "/", "get", "?", "f=a", "/", "b">>>>
    /\ argv.interactive /\ argv.non_interactive /\ config_interactive
    /\ Len(calls) = 1
    /\ calls[1].save_path = <<<<"get">>>>

\* the cache file is at least CACHE_EXPIRY_DAYS whole days old at time t
SevenDaysOld(f, t) ==
    /\ f.state = "ok"
    /\ t - f.data[1].cache_timestamp >= CACHE_EXPIRY_DAYS * HalfDaysPerDay

\* C24: at startup (without --update-servers) the server list is fetched if
\* and only if the cache timestamp is at least 7 whole days old.  A fetch
\* that succeeds replaces remote_list and sets cache_timestamp to now, so
\* that the data is no longer stale, and leaves the health data; a fetch
\* that fails leaves remote_list, cache_timestamp, the health data and the
\* cache file as they were.  Either way main goes on.
C24_RefreshAtStartup ==
    [][/\ (main_pc = "start" /\ ~argv.update_servers) =>
              /\ (main_pc' = "fetch") <=> SevenDaysOld(cache_file, now)
              /\ (fetches' = fetches + 1) <=> SevenDaysOld(cache_file, now)
              /\ main_pc' \in {"fetch", "resolve"}
       /\ (main_pc = "fetch" /\ main_pc' # "fetch") =>
              /\ main_pc' = "resolve" /\ exit' = "running" /\ fetches' = fetches
              /\ \/ server_data' = server_data /\ cache_file' = cache_file
                 \/ /\ \E l \in NewLists : server_data'.remote_list = <<l>>
                    /\ server_data'.cache_timestamp = now
                    /\ server_data'.health = server_data.health
                    /\ now' - server_data'.cache_timestamp
                          < CACHE_EXPIRY_DAYS * HalfDaysPerDay
       /\ (main_pc \notin {"start", "fetch", "update"}) =>
              /\ server_data' = server_data /\ cache_file' = cache_file
              /\ fetches' = fetches
      ]_vars

C24_Witness ==
    /\ main_pc = "resolve" /\ ~argv.update_servers
    /\ fetches = 1 /\ waited = 1 /\ now = 1
    /\ server_data.remote_list # <<>> /\ server_data.remote_list[1].version = "v2"
    /\ server_data.cache_timestamp = 1
    /\ server_data.health = {"old"}
    /\ cache_file = FileOf(server_data)

\* out holds exactly the enabled servers of src, in the order of src
EnabledInOrder(out, src) ==
    \E f \in [1..Len(out) -> 1..Len(src)] :
        /\ \A i, j \in 1..Len(out) : i < j => f[i] < f[j]
        /\ \A i \in 1..Len(out) : out[i] = src[f[i]]
        /\ \A k \in 1..Len(src) : src[k].enabled <=> \E i \in 1..Len(out) : f[i] = k

\* C25: get_merged_server_list returns only enabled servers, in source
\* order.  With a cached remote list, that list is the only source (even if
\* it is empty or all its servers are disabled); without one, the result is
\* exactly the embedded servers.
C25_MergedList ==
    merged # <<>> =>
        /\ \A i \in 1..Len(merged[1]) : merged[1][i].enabled
        /\ server_data.remote_list # <<>> =>
              EnabledInOrder(merged[1], server_data.remote_list[1].servers)
        /\ server_data.remote_list = <<>> =>
              /\ Len(merged[1]) = Len(SERVERS)
              /\ \A i \in 1..Len(SERVERS) : merged[1][i].name = SERVERS[i].name

C25_Witness ==
    /\ merged = <<<<Server("b", TRUE), Server("a", TRUE)>>>>
    /\ server_data.remote_list # <<>>
    /\ server_data.remote_list[1].servers
          = <<Server("b", TRUE), Server("a", FALSE), Server("a", TRUE)>>

====
